---- MODULE Spec2Model ----
(***************************************************************************)
(* Model of the route agent of vcorr/roadtrippy:                           *)
(*   route_agent/agent.py                   get_route_places               *)
(*   route_agent/route_planning_service.py  RouteService                   *)
(* and of the forecast parser of its weather agent:                        *)
(*   weather_agent/weather_service.py       _parse_forecast_data           *)
(*                                                                         *)
(* Python lists are sequences; Python index j is index j+1 here.           *)
(* Distances are whole metres (the code uses floats; the model keeps the   *)
(* arithmetic exact).  Coordinates are whole units of 1e-5 degree, the     *)
(* precision polyline.decode yields.                                       *)
(***************************************************************************)
EXTENDS Integers, Sequences, FiniteSets, TLC

VARIABLES
    api_key,          \* RouteService.api_key ("None" or the key)
    client,           \* RouteService.client ("None" or "client")
    pc,               \* position of the running call
    interval_km,      \* get_route_places argument
    start_coords,     \* get_places_along_route local
    end_coords,       \* get_places_along_route local
    route_data,       \* get_places_along_route local
    coords,           \* decoded_coords / _find_interval_points parameter
    distances,        \* distances / _find_interval_points parameter
    interval_meters,  \* _find_interval_points parameter
    current_target,   \* _find_interval_points local
    total_distance,   \* _find_interval_points local
    closest_index,    \* _find_interval_points local (0 = not yet assigned)
    interval_points,  \* _find_interval_points local and result
    rg_next,          \* position of the "for lat, lon, _ in interval_points" loop
    rg_response,      \* what pelias_reverse did in the latest _reverse_geocode
    place_name,       \* get_places_along_route local: latest _reverse_geocode result
    places,           \* get_places_along_route local and result
    result,           \* dictionary returned by get_route_places
    prev,             \* outcome of the previous get_route_places call of the process
    data,             \* _parse_forecast_data parameter: the forecast response
    forecast,         \* dictionary returned by _parse_forecast_data
    calls             \* collaborator calls made so far, in order

vars == <<api_key, client, pc, interval_km, start_coords, end_coords, route_data,
          coords, distances, interval_meters, current_target, total_distance,
          closest_index, interval_points, rg_next, rg_response, place_name,
          places, result, prev, data, forecast, calls>>

samplerVars == <<coords, distances, interval_meters, current_target,
                 total_distance, closest_index, interval_points>>

queryVars == <<api_key, client, interval_km, start_coords, end_coords,
               route_data, rg_next, rg_response, place_name, places, result, prev,
               data, forecast, calls>>

--------------------------------------------------------------------------
(* Bounds of the model *)

MaxLen == 3          \* longest coordinate / distance sequence
MaxDist == 9         \* largest distance of a directly supplied sequence
MaxInterval == 5     \* largest directly supplied interval
MaxIter == MaxDist   \* iterations of the sampling loop the model follows

None == "None"          \* Python None where the other values are strings
NoCoords == <<>>         \* Python None where the other values are tuples
NoResult == [status |-> "none"]
NoPrev == [cause |-> "no call", message |-> ""]
NoData == [cod |-> "none", message |-> "", list |-> <<>>]
NoRoute == [kind |-> "None", decodable |-> FALSE, points |-> <<>>]
NoResponse == [kind |-> "not called", locality |-> "", county |-> "",
               region |-> "", country |-> ""]

Abs(x) == IF x < 0 THEN -x ELSE x

--------------------------------------------------------------------------
(* RouteService._find_interval_points                                      *)

\* "if not coords or not distances or len(coords) != len(distances)"
GuardRejects_NoLengthCheck(cs, ds) == cs = <<>> \/ ds = <<>>

GuardRejects(cs, ds) == cs = <<>> \/ ds = <<>> \/ Len(cs) # Len(ds)

\* "while current_target < total_distance"
LoopCondition_Inclusive(target, total) == target <= total

LoopCondition(target, total) == target < total

\* key=lambda i: abs(distances[i] - current_target)
Key(ds, target, i) == Abs(ds[i] - target)

\* min(range(len(distances)), key=...): one left-to-right scan that replaces
\* the running best only by a strictly smaller key.
RECURSIVE MinScan_LastWins(_, _, _, _)
MinScan_LastWins(ds, target, best, i) ==
    IF i > Len(ds) THEN best
    ELSE MinScan_LastWins(ds, target,
                          IF Key(ds, target, i) <= Key(ds, target, best) THEN i ELSE best,
                          i + 1)

RECURSIVE MinScan(_, _, _, _)
MinScan(ds, target, best, i) ==
    IF i > Len(ds) THEN best
    ELSE MinScan(ds, target,
                 IF Key(ds, target, i) < Key(ds, target, best) THEN i ELSE best,
                 i + 1)

\* max in place of min
RECURSIVE MaxScan(_, _, _, _)
MaxScan(ds, target, best, i) ==
    IF i > Len(ds) THEN best
    ELSE MaxScan(ds, target,
                 IF Key(ds, target, i) > Key(ds, target, best) THEN i ELSE best,
                 i + 1)

ClosestIndex_Farthest(ds, target) == MaxScan(ds, target, 1, 2)

ClosestIndex_LastWins(ds, target) == MinScan_LastWins(ds, target, 1, 2)

ClosestIndex(ds, target) == MinScan(ds, target, 1, 2)

\* (lat, lon, distances[closest_index])
SamplePoint_EndDistance(cs, ds, i) == <<cs[i][1], cs[i][2], ds[Len(ds)]>>

SamplePoint(cs, ds, i) == <<cs[i][1], cs[i][2], ds[i]>>

\* lines 155-160: the guard and the initialisation of the locals
FipEnter ==
    /\ pc = "fip_call"
    /\ interval_points' = <<>>
    /\ IF GuardRejects(coords, distances)
         THEN /\ pc' = "fip_done"
              /\ UNCHANGED <<current_target, total_distance>>
         ELSE /\ pc' = "fip_loop"
              /\ current_target' = interval_meters
              /\ total_distance' = distances[Len(distances)]
    /\ UNCHANGED <<coords, distances, interval_meters, closest_index>>
    /\ UNCHANGED queryVars

\* lines 162-167: one iteration of the sampling loop
FipIterate ==
    /\ pc = "fip_loop"
    /\ LoopCondition(current_target, total_distance)
    /\ Len(interval_points) < MaxIter
    /\ closest_index' = ClosestIndex(distances, current_target)
    /\ interval_points' =
           Append(interval_points, SamplePoint(coords, distances, closest_index'))
    /\ current_target' = current_target + interval_meters
    /\ UNCHANGED <<pc, coords, distances, interval_meters, total_distance>>
    /\ UNCHANGED queryVars

\* lines 162, 169: the loop condition fails and the list is returned
FipReturn ==
    /\ pc = "fip_loop"
    /\ ~LoopCondition(current_target, total_distance)
    /\ pc' = "fip_done"
    /\ UNCHANGED samplerVars
    /\ UNCHANGED queryVars

--------------------------------------------------------------------------
(* RouteService.__init__                                                   *)

EnvKeys == {None, "", "5b3ce6"}                 \* OPENROUTESERVICE_API_KEY
CtorOutcomes == {"ok", "ApiError", "Exception"}  \* openrouteservice.Client(key=...)

RouteServiceInit_KeyKeptOnFailure(key, ctor) ==
    IF key = None \/ key = ""
      THEN [api_key |-> None, client |-> None]
      ELSE [api_key |-> key, client |-> IF ctor = "ok" THEN "client" ELSE None]

RouteServiceInit(key, ctor) ==
    IF key = None \/ key = ""
      THEN [api_key |-> None, client |-> None]
      ELSE IF ctor = "ok"
             THEN [api_key |-> key, client |-> "client"]
             ELSE [api_key |-> None, client |-> None]

--------------------------------------------------------------------------
(* Inputs and collaborators of one route query                             *)

StartLocation == "Helsinki"
EndLocation == "Turku"
IntervalKms == {0, 50, 100}

\* <<longitude, latitude>> the geocoder knows for a place
LocationOf(place) ==
    IF place = StartLocation THEN <<2493840, 6016990>> ELSE <<2226880, 6045180>>

\* decoded route points <<latitude, longitude>>
P1 == <<6149910, 2378710>>
P2 == <<6189906, 2378714>>
P3 == <<6239902, 2378710>>
Coord == {P1, P2, P3}

\* geodesic(p, q).meters: a non-negative, symmetric distance, 0 for p = q
\* (one unit of 1e-5 degree counted as one metre along each axis)
Geodesic(p, q) == Abs(p[1] - q[1]) + Abs(p[2] - q[2])

\* what client.pelias_search can do
GeocodeResponses(place) ==
    {[kind |-> k, coordinates |-> <<>>] :
        k \in {"ApiError", "Exception", "no result", "no features", "not numbers"}}
    \cup {[kind |-> "features", coordinates |-> c] :
            c \in {<<>>, LocationOf(place), LocationOf(place) \o <<0>>}}

\* what client.directions can do; the geometry of a route is described by
\* what polyline.decode makes of it
RouteResponses ==
    {[kind |-> k, decodable |-> FALSE, points |-> <<>>] :
        k \in {"raise", "empty", "malformed", "ok"}}
    \cup {[kind |-> "ok", decodable |-> TRUE, points |-> cs] :
            cs \in UNION {[1..m -> Coord] : m \in 0..MaxLen}}

\* what client.pelias_reverse can do; a field that is absent, None or empty
\* is ""
ReverseResponses ==
    {[kind |-> k, locality |-> "", county |-> "", region |-> "", country |-> ""] :
        k \in {"raise", "no result", "no features", "malformed"}}
    \cup [kind : {"feature"}, locality : {"", "Salo"}, county : {"", "Lohja"},
          region : {"", "Uusimaa"}, country : {"", "Finland"}]

FailureKinds == {"raise", "no result", "no features", "malformed"}

--------------------------------------------------------------------------
(* RouteService helpers                                                    *)

\* get_coordinates, lines 39-62, on the collaborator's response
GetCoordinates(resp) ==
    IF resp.kind = "features" /\ resp.coordinates # <<>> /\ Len(resp.coordinates) = 2
      THEN <<resp.coordinates[1], resp.coordinates[2]>>
      ELSE NoCoords

\* line 81: "if not start_coords or not end_coords"
GeocodeFailed_Both(sc, ec) == sc = NoCoords /\ ec = NoCoords

GeocodeFailed(sc, ec) == sc = NoCoords \/ ec = NoCoords

\* _get_route, lines 117-130
GetRoute(resp) == IF resp.kind = "raise" THEN NoRoute ELSE resp

\* _decode_polyline
DecodePolyline(route) == IF route.decodable THEN route.points ELSE <<>>

\* _calculate_distances
RECURSIVE SegmentLengths(_, _, _)
SegmentLengths(cs, ds, i) ==
    IF i > Len(cs) THEN ds
    ELSE SegmentLengths(cs, Append(ds, Geodesic(cs[i-1], cs[i])), i + 1)

RECURSIVE Accumulate(_, _, _)
Accumulate(cs, ds, i) ==
    IF i > Len(cs) THEN ds
    ELSE Accumulate(cs, Append(ds, ds[Len(ds)] + Geodesic(cs[i-1], cs[i])), i + 1)

CalculateDistances_NotCumulative(cs) ==
    IF cs = <<>> \/ Len(cs) < 2 THEN <<>> ELSE SegmentLengths(cs, <<0>>, 2)

CalculateDistances_KeepsSinglePoint(cs) ==
    IF cs = <<>> THEN <<>> ELSE Accumulate(cs, <<0>>, 2)

CalculateDistances(cs) ==
    IF cs = <<>> \/ Len(cs) < 2 THEN <<>> ELSE Accumulate(cs, <<0>>, 2)

\* f"{x:.4f}" for x given in units of 1e-5: rounded to the nearest 1e-4
\* (no coordinate of the model lies exactly between two of them)
Round4(a) == (a + 5) \div 10

Pad4(n) ==
    (IF n < 10 THEN "000" ELSE IF n < 100 THEN "00" ELSE IF n < 1000 THEN "0" ELSE "")
    \o ToString(n)

Fmt4(x) ==
    LET r == Round4(Abs(x))
    IN  (IF x < 0 THEN "-" ELSE "") \o ToString(r \div 10000) \o "." \o Pad4(r % 10000)

\* f"({lat:.4f}, {lon:.4f})"
FormatCoords(lat, lon) == "(" \o Fmt4(lat) \o ", " \o Fmt4(lon) \o ")"

\* lines 180-187: the "or" chain over the properties of the first feature
PlaceNameOf_CountyFirst(props, lat, lon) ==
    IF props.county # "" THEN props.county
    ELSE IF props.locality # "" THEN props.locality
    ELSE IF props.region # "" THEN props.region
    ELSE IF props.country # "" THEN props.country
    ELSE FormatCoords(lat, lon)

PlaceNameOf(props, lat, lon) ==
    IF props.locality # "" THEN props.locality
    ELSE IF props.county # "" THEN props.county
    ELSE IF props.region # "" THEN props.region
    ELSE IF props.country # "" THEN props.country
    ELSE FormatCoords(lat, lon)

\* _reverse_geocode, lines 176-191, on the collaborator's response
ReverseGeocode_FallbackOnFailure(resp, lat, lon) ==
    IF resp.kind = "feature" THEN PlaceNameOf(resp, lat, lon) ELSE FormatCoords(lat, lon)

ReverseGeocode(resp, lat, lon) ==
    IF resp.kind = "feature" THEN PlaceNameOf(resp, lat, lon) ELSE None

\* "if place_name:"
Truthy(name) == name # None /\ name # ""

\* lines 107-108: "if place_name: places.append(place_name)"
AppendPlace_NoRepeat(ps, name) ==
    IF Truthy(name) /\ (ps = <<>> \/ ps[Len(ps)] # name) THEN Append(ps, name) ELSE ps

AppendPlace(ps, name) == IF Truthy(name) THEN Append(ps, name) ELSE ps

--------------------------------------------------------------------------
(* get_route_places (agent.py): the dictionaries it returns                *)

NotConfiguredResult ==
    [status |-> "error",
     error_message |->
        "Route service is not configured (API key may be missing or invalid)."]

NoPlacesResult_ShortMessage ==
    [status |-> "error", start_location |-> StartLocation, end_location |-> EndLocation,
     error_message |->
        "No places found along the route from " \o StartLocation \o " to " \o EndLocation
        \o "."]

NoPlacesResult ==
    [status |-> "error", start_location |-> StartLocation, end_location |-> EndLocation,
     error_message |->
        "No places found along the route from " \o StartLocation \o " to " \o EndLocation
        \o ". This could be due to geocoding issues or route calculation problems."]

ExceptionResult(e) ==
    [status |-> "error", start_location |-> StartLocation, end_location |-> EndLocation,
     error_message |-> "An error occurred while calculating the route: " \o e]

RECURSIVE Join(_, _)
Join(sep, xs) ==
    IF xs = <<>> THEN ""
    ELSE IF Len(xs) = 1 THEN xs[1]
    ELSE xs[1] \o sep \o Join(sep, Tail(xs))

\* lines 50-54 (interval_km is printed as the whole number the model passes)
Report(ps, km) ==
    IF Len(ps) = 1
      THEN "On the route from " \o StartLocation \o " to " \o EndLocation
           \o ", you will pass through: " \o ps[1] \o "."
      ELSE "On the route from " \o StartLocation \o " to " \o EndLocation
           \o " (with stops every " \o ToString(km) \o "km), you will pass through: "
           \o Join(", ", SubSeq(ps, 1, Len(ps) - 1)) \o ", and " \o ps[Len(ps)] \o "."

\* lines 41-63: what get_route_places makes of the list the service returned
ToolResult_SuccessWhenEmpty(ps, km) ==
    [status |-> "success", start_location |-> StartLocation,
     end_location |-> EndLocation, interval_km |-> km, places |-> ps,
     human_readable_report |-> IF ps = <<>> THEN "" ELSE Report(ps, km)]

ToolResult(ps, km) ==
    IF ps = <<>>
      THEN NoPlacesResult
      ELSE [status |-> "success", start_location |-> StartLocation,
            end_location |-> EndLocation, interval_km |-> km, places |-> ps,
            human_readable_report |-> Report(ps, km)]

--------------------------------------------------------------------------
(* One call of get_route_places, step by step                              *)

\* get_places_along_route returns ps and get_route_places builds its result
ReturnPlaces(ps) ==
    /\ places' = ps
    /\ result' = ToolResult(ps, interval_km)
    /\ pc' = "done"

\* agent.py line 29: "if not route_service_instance or not
\* route_service_instance.api_key" (the instance always exists)
ServiceUnavailable_NeverChecked(key) == FALSE

ServiceUnavailable(key) == ~Truthy(key)

\* agent.py lines 29-39
GetRoutePlaces ==
    /\ pc = "tool_call"
    /\ IF ServiceUnavailable(api_key)
         THEN result' = NotConfiguredResult /\ pc' = "done"
         ELSE result' = result /\ pc' = "geocode_start"
    /\ UNCHANGED <<data, forecast, prev, api_key, client, interval_km, start_coords, end_coords, route_data,
                   rg_next, rg_response, place_name, places, calls>>
    /\ UNCHANGED samplerVars

\* line 78: start_coords = self.get_coordinates(start_place)
GeocodeStart ==
    /\ pc = "geocode_start"
    /\ IF client = None
         THEN start_coords' = NoCoords /\ calls' = calls
         ELSE \E resp \in GeocodeResponses(StartLocation) :
                 /\ start_coords' = GetCoordinates(resp)
                 /\ calls' = Append(calls, "pelias_search")
    /\ pc' = "geocode_end"
    /\ UNCHANGED <<data, forecast, prev, api_key, client, interval_km, end_coords, route_data,
                   rg_next, rg_response, place_name, places, result>>
    /\ UNCHANGED samplerVars

\* lines 79-83: end_coords = self.get_coordinates(end_place) and the check
GeocodeEnd ==
    /\ pc = "geocode_end"
    /\ IF client = None
         THEN end_coords' = NoCoords /\ calls' = calls
         ELSE \E resp \in GeocodeResponses(EndLocation) :
                 /\ end_coords' = GetCoordinates(resp)
                 /\ calls' = Append(calls, "pelias_search")
    /\ IF GeocodeFailed(start_coords, end_coords')
         THEN ReturnPlaces(<<>>)
         ELSE pc' = "route" /\ UNCHANGED <<places, result>>
    /\ UNCHANGED <<data, forecast, prev, api_key, client, interval_km, start_coords, route_data,
                   rg_next, rg_response, place_name>>
    /\ UNCHANGED samplerVars

\* lines 86-88: route_data = self._get_route(start_coords, end_coords)
FetchRoute ==
    /\ pc = "route"
    /\ IF client = None
         THEN route_data' = NoRoute /\ calls' = calls
         ELSE \E resp \in RouteResponses :
                 /\ route_data' = GetRoute(resp)
                 /\ calls' = Append(calls, "directions")
    /\ IF route_data'.kind \in {"None", "empty"}
         THEN ReturnPlaces(<<>>)
         ELSE pc' = "decode" /\ UNCHANGED <<places, result>>
    /\ UNCHANGED <<data, forecast, prev, api_key, client, interval_km, start_coords, end_coords,
                   rg_next, rg_response, place_name>>
    /\ UNCHANGED samplerVars

\* lines 91-101: geometry, decoded_coords, distances and the call of the sampler
DecodeAndMeasure ==
    /\ pc = "decode"
    /\ IF route_data.kind = "malformed"
         THEN \* route_data['routes'] raises KeyError, caught in agent.py line 65
              /\ result' = ExceptionResult("'routes'")
              /\ pc' = "done"
              /\ UNCHANGED <<coords, distances, interval_meters, places>>
         ELSE LET decoded == DecodePolyline(route_data)
                  dists == CalculateDistances(decoded)
              IN  /\ coords' = decoded
                  /\ IF decoded = <<>>
                       THEN /\ ReturnPlaces(<<>>)
                            /\ UNCHANGED <<distances, interval_meters>>
                       ELSE /\ distances' = dists
                            /\ IF dists = <<>>
                                 THEN /\ ReturnPlaces(<<>>)
                                      /\ UNCHANGED interval_meters
                                 ELSE /\ interval_meters' = interval_km * 1000
                                      /\ pc' = "fip_call"
                                      /\ UNCHANGED <<places, result>>
    /\ UNCHANGED <<data, forecast, prev, api_key, client, interval_km, start_coords, end_coords, route_data,
                   rg_next, rg_response, place_name, calls>>
    /\ UNCHANGED <<current_target, total_distance, closest_index, interval_points>>

\* lines 105-108: one iteration of "for lat, lon, _ in interval_points"
ResolveNext ==
    /\ pc = "fip_done"
    /\ rg_next <= Len(interval_points)
    /\ LET lat == interval_points[rg_next][1]
           lon == interval_points[rg_next][2]
       IN  IF client = None
             THEN /\ place_name' = None
                  /\ UNCHANGED <<rg_response, calls>>
             ELSE \E resp \in ReverseResponses :
                     /\ rg_response' = resp
                     /\ place_name' = ReverseGeocode(resp, lat, lon)
                     /\ calls' = Append(calls, "pelias_reverse")
    /\ places' = AppendPlace(places, place_name')
    /\ rg_next' = rg_next + 1
    /\ UNCHANGED <<data, forecast, prev, api_key, client, pc, interval_km, start_coords, end_coords,
                   route_data, result>>
    /\ UNCHANGED samplerVars

\* line 110 and agent.py lines 41-63
FinishQuery ==
    /\ pc = "fip_done"
    /\ rg_next > Len(interval_points)
    /\ ReturnPlaces(places)
    /\ UNCHANGED <<data, forecast, prev, api_key, client, interval_km, start_coords, end_coords, route_data,
                   rg_next, rg_response, place_name, calls>>
    /\ UNCHANGED samplerVars

\* why the finished call ended as it did, read off its locals
Cause ==
    IF api_key = None THEN "not configured"
    ELSE IF GeocodeFailed(start_coords, end_coords) THEN "geocode"
    ELSE IF route_data.kind \in {"None", "empty"} THEN "route"
    ELSE IF route_data.kind = "malformed" THEN "exception"
    ELSE IF distances = <<>> THEN "no route data"
    ELSE IF interval_points = <<>> THEN "short route"
    ELSE IF places = <<>> THEN "no name resolved"
    ELSE "success"

\* the agent framework calls the tool again in the same process; the
\* previous result stays with the caller
NextQuery ==
    /\ pc = "done"
    /\ prev' = [cause |-> Cause,
                message |-> IF result.status = "error" THEN result.error_message ELSE ""]
    /\ pc' = "tool_call"
    /\ interval_km' \in IntervalKms
    /\ start_coords' = NoCoords
    /\ end_coords' = NoCoords
    /\ route_data' = NoRoute
    /\ coords' = <<>>
    /\ distances' = <<>>
    /\ interval_meters' = 0
    /\ current_target' = 0
    /\ total_distance' = 0
    /\ closest_index' = 0
    /\ interval_points' = <<>>
    /\ rg_next' = 1
    /\ rg_response' = NoResponse
    /\ place_name' = None
    /\ places' = <<>>
    /\ result' = NoResult
    /\ calls' = <<>>
    /\ UNCHANGED <<api_key, client, data, forecast>>

\* the process after "route_service_instance = RouteService()" (agent.py line
\* 10; __init__ raises nothing, so the instance always exists)
Init ==
    /\ \E key \in EnvKeys, ctor \in CtorOutcomes :
          /\ api_key = RouteServiceInit(key, ctor).api_key
          /\ client = RouteServiceInit(key, ctor).client
    /\ pc = "tool_call"
    /\ interval_km \in IntervalKms
    /\ start_coords = NoCoords
    /\ end_coords = NoCoords
    /\ route_data = NoRoute
    /\ coords = <<>>
    /\ distances = <<>>
    /\ interval_meters = 0
    /\ current_target = 0
    /\ total_distance = 0
    /\ closest_index = 0
    /\ interval_points = <<>>
    /\ rg_next = 1
    /\ rg_response = NoResponse
    /\ place_name = None
    /\ places = <<>>
    /\ result = NoResult
    /\ prev = NoPrev
    /\ data = NoData
    /\ forecast = NoResult
    /\ calls = <<>>

Next ==
    \/ GetRoutePlaces
    \/ GeocodeStart
    \/ GeocodeEnd
    \/ FetchRoute
    \/ DecodeAndMeasure
    \/ FipEnter
    \/ FipIterate
    \/ FipReturn
    \/ ResolveNext
    \/ FinishQuery
    \/ NextQuery

Spec == Init /\ [][Next]_vars

--------------------------------------------------------------------------
(* Direct calls of _find_interval_points on arbitrary arguments.           *)
(* The function only copies coordinates, so the j-th coordinate is a point *)
(* that differs from every other one: a copy from a wrong index shows.     *)

TestPoint(j) == <<6100000 + j, 2300000 - j>>

TestCoords(n) == [j \in 1..n |-> TestPoint(j)]

SeqsUpTo(S, n) == UNION {[1..m -> S] : m \in 0..n}

SamplerInit ==
    /\ pc = "fip_call"
    /\ coords \in {TestCoords(n) : n \in 0..MaxLen}
    /\ distances \in SeqsUpTo(0..MaxDist, MaxLen)
    /\ interval_meters \in -1..MaxInterval
    /\ current_target = 0
    /\ total_distance = 0
    /\ closest_index = 0
    /\ interval_points = <<>>
    /\ api_key = "key"
    /\ client = "client"
    /\ interval_km = 0
    /\ start_coords = NoCoords
    /\ end_coords = NoCoords
    /\ route_data = NoRoute
    /\ rg_next = 1
    /\ rg_response = NoResponse
    /\ place_name = None
    /\ places = <<>>
    /\ result = NoResult
    /\ prev = NoPrev
    /\ data = NoData
    /\ forecast = NoResult
    /\ calls = <<>>

SamplerNext == FipEnter \/ FipIterate \/ FipReturn

SamplerSpec == SamplerInit /\ [][SamplerNext]_vars

--------------------------------------------------------------------------
(* Claims about _find_interval_points, checked under SamplerSpec           *)

ValidInput == coords # <<>> /\ distances # <<>> /\ Len(coords) = Len(distances)

LastDistance == distances[Len(distances)]

\* the target of the k-th iteration: interval, 2*interval, 3*interval, ...
TargetOf(k) == k * interval_meters

\* the sample that index j of the input stands for
PointAt(j) == <<coords[j][1], coords[j][2], distances[j]>>

IsNearest(j, t) ==
    \A m \in 1..Len(distances) : Abs(distances[j] - t) <= Abs(distances[m] - t)

\* the positive multiples of the interval strictly less than d
MultiplesBelow(d) == {k \in 1..(IF d > 0 THEN d ELSE 0) : k * interval_meters < d}

C2_NonPositiveIntervalRejected ==
    (ValidInput /\ interval_meters <= 0) =>
        /\ ~(pc = "fip_loop" /\ current_target < total_distance)
        /\ pc # "fip_done"

\* What the code does instead (C2): once the loop runs with an interval <= 0
\* its condition stays true after every iteration, so it never exits.
C2_LoopNeverExits ==
    [][(pc = "fip_loop" /\ interval_meters <= 0
          /\ current_target < total_distance)
       => (pc' = "fip_loop" /\ current_target' < total_distance')]_vars

\* a distance sequence as _calculate_distances produces them for a route of
\* at least three points: it starts at 0 and never decreases
RouteLike ==
    /\ Len(distances) >= 3
    /\ distances[1] = 0
    /\ \A i \in 2..Len(distances) : distances[i] >= distances[i-1]

\* C3 as stated: with a positive interval neither the first coordinate
\* (index 0) nor the last one (index len-1) is ever selected as a sample
\* (stated here for route-like inputs only, where first and last differ).
C3_OnlyInteriorIndices ==
    (ValidInput /\ RouteLike /\ interval_meters > 0 /\ closest_index # 0) =>
        closest_index \notin {1, Len(distances)}

\* C3 amended: with a positive interval every sample is taken for a target
\* k*interval that lies strictly inside the route (0 < target < D), and the
\* sample is a point of the route; it may be the first or the last point.
C3_TargetsInterior ==
    (ValidInput /\ interval_meters > 0) =>
        /\ \A k \in 1..Len(interval_points) :
              /\ 0 < TargetOf(k) /\ TargetOf(k) < LastDistance
              /\ \E j \in 1..Len(distances) :
                    interval_points[k] = PointAt(j)
        /\ closest_index \in 0..Len(distances)

C3_Witness ==
    /\ pc = "fip_done" /\ ValidInput /\ RouteLike /\ interval_meters > 0
    /\ Len(distances) = 3
    /\ Len(interval_points) >= 2
    /\ interval_points[1] = PointAt(1)
    /\ interval_points[Len(interval_points)] = PointAt(3)

\* C4: the k-th sample is (coords[j], distances[j]) for one index j whose
\* distance is nearest to the k-th target k*interval; coordinate and distance
\* come from the same index.  Distances [0, 4, 9] with interval 5 (the
\* spec's 40 km, 90 km and 50 km in units of 10 km) give the one sample
\* (coords[1], 4).
C4_NearestSample ==
    ValidInput =>
        /\ \A k \in 1..Len(interval_points) :
              \E j \in 1..Len(distances) :
                  /\ IsNearest(j, TargetOf(k))
                  /\ interval_points[k] = PointAt(j)
        /\ (pc = "fip_done" /\ distances = <<0, 4, 9>> /\ interval_meters = 5) =>
              interval_points = <<PointAt(2)>>

C4_Witness ==
    /\ pc = "fip_done"
    /\ Len(coords) = 3 /\ distances = <<0, 4, 9>> /\ interval_meters = 5
    /\ interval_points = <<<<TestPoint(2)[1], TestPoint(2)[2], 4>>>>

\* C5: when several indices are equally close to the target of an iteration,
\* the iteration selects the smallest of them.
C5_TieBreakFirst ==
    (ValidInput /\ closest_index # 0) =>
        LET t == TargetOf(Len(interval_points))
        IN  /\ IsNearest(closest_index, t)
            /\ \A m \in 1..Len(distances) : IsNearest(m, t) => closest_index <= m

C5_Witness ==
    /\ ValidInput /\ closest_index # 0
    /\ LET t == TargetOf(Len(interval_points))
       IN  /\ \E m \in 1..Len(distances) :
                 m > closest_index /\ IsNearest(m, t)
                 /\ distances[m] # distances[closest_index]

\* C8: on sequences of different lengths, or with either one empty, the
\* sampler returns no samples and never enters the sampling loop, whatever
\* the interval.
C8_MismatchReturnsNothing ==
    (Len(coords) # Len(distances) \/ coords = <<>> \/ distances = <<>>) =>
        /\ pc # "fip_loop"
        /\ closest_index = 0
        /\ interval_points = <<>>

C8_Witness ==
    /\ pc = "fip_done"
    /\ coords # <<>> /\ distances # <<>> /\ Len(coords) # Len(distances)
    /\ interval_meters > 0 /\ interval_meters < distances[Len(distances)]

--------------------------------------------------------------------------
(* Claims about the route query, checked under Spec                        *)

\* the query got as far as decoding a fetched route
RouteDecoded ==
    route_data.kind = "ok" /\ pc \in {"fip_call", "fip_loop", "fip_done", "done"}

\* the sample the latest _reverse_geocode call was made for
ResolvedSample == interval_points[rg_next - 1]

Resolving == pc \in {"fip_done", "done"} /\ rg_next > 1

\* C6: for n >= 2 decoded coordinates _calculate_distances yields exactly n
\* entries, index-aligned with the coordinates (each entry adds the distance
\* of its segment), the first is 0 and every entry is >= its predecessor.
C6_DistancesMonotone ==
    (RouteDecoded /\ Len(coords) >= 2) =>
        /\ Len(distances) = Len(coords)
        /\ distances[1] = 0
        /\ \A i \in 2..Len(distances) :
              /\ distances[i] >= distances[i-1]
              /\ distances[i] - distances[i-1] = Geodesic(coords[i-1], coords[i])

C6_Witness ==
    /\ pc = "fip_call"
    /\ coords = <<P1, P2, P3>>
    /\ distances = <<0, 40000, 90000>>

\* C7: when the decoded sequence has fewer than 2 points,
\* _calculate_distances returns the empty sequence, no sample is produced, no
\* reverse-geocode call is made, get_places_along_route returns the empty
\* list without raising and get_route_places returns status "error".
C7_TooFewPoints ==
    (RouteDecoded /\ Len(coords) < 2) =>
        /\ CalculateDistances(coords) = <<>>
        /\ distances = <<>>
        /\ interval_points = <<>>
        /\ \A i \in 1..Len(calls) : calls[i] # "pelias_reverse"
        /\ pc = "done"
        /\ places = <<>>
        /\ result = NoPlacesResult
        /\ result.status = "error"

C7_Witness ==
    /\ pc = "done"
    /\ route_data.kind = "ok" /\ route_data.decodable
    /\ Len(coords) = 1
    /\ result.status = "error"

\* C9: when the collaborator returns a feature, _reverse_geocode returns the
\* first non-empty of locality, county, region, country, and with none of
\* them the coordinates formatted to 4 decimals, e.g. "(61.4991, 23.7871)";
\* never an empty name and never None.
C9_NamePrecedence ==
    (Resolving /\ rg_response.kind = "feature") =>
        LET fields == <<rg_response.locality, rg_response.county,
                        rg_response.region, rg_response.country>>
            named == {i \in 1..4 : fields[i] # ""}
        IN  /\ place_name # None /\ place_name # ""
            /\ \A i \in named : (\A h \in named : i <= h) => place_name = fields[i]
            /\ named = {} =>
                  /\ place_name = FormatCoords(ResolvedSample[1], ResolvedSample[2])
                  /\ <<ResolvedSample[1], ResolvedSample[2]>> = P1
                        => place_name = "(61.4991, 23.7871)"
                  /\ <<ResolvedSample[1], ResolvedSample[2]>> = P2
                        => place_name = "(61.8991, 23.7871)"
                  /\ <<ResolvedSample[1], ResolvedSample[2]>> = P3
                        => place_name = "(62.3990, 23.7871)"

C9_Witness ==
    /\ Resolving /\ rg_response.kind = "feature"
    /\ rg_response.locality = "" /\ rg_response.county = ""
    /\ rg_response.region = "" /\ rg_response.country = ""
    /\ <<ResolvedSample[1], ResolvedSample[2]>> = P1
    /\ places = <<"Lohja", "(61.4991, 23.7871)">>

ResolveStep == pc = "fip_done" /\ rg_next' = rg_next + 1

Stage(call) ==
    IF call = "pelias_search" THEN 1 ELSE IF call = "directions" THEN 2 ELSE 3

Called(name) == \E i \in 1..Len(calls) : calls[i] = name

\* C12: collaborator calls only go forward (geocode, geocode, route fetch,
\* reverse-geocodes); the route is fetched only after both geocodes returned
\* coordinates, reverse-geocode is called only after a route was fetched and
\* decoded; when an endpoint fails to geocode or the route fetch fails, the
\* result is the empty list and no later collaborator is called.
C12_CallsForwardAndGated ==
    /\ \A i, j \in 1..Len(calls) : i < j => Stage(calls[i]) <= Stage(calls[j])
    /\ Cardinality({i \in 1..Len(calls) : calls[i] = "pelias_search"}) <= 2
    /\ Cardinality({i \in 1..Len(calls) : calls[i] = "directions"}) <= 1
    /\ Called("directions") =>
          /\ Len(calls) >= 3 /\ calls[1] = "pelias_search" /\ calls[2] = "pelias_search"
          /\ start_coords # NoCoords /\ end_coords # NoCoords
    /\ Called("pelias_reverse") =>
          /\ Called("directions")
          /\ route_data.kind = "ok" /\ route_data.decodable
          /\ coords = route_data.points /\ Len(coords) >= 2
    /\ (pc \in {"route", "decode", "fip_call", "fip_loop", "fip_done"}) =>
          (start_coords # NoCoords /\ end_coords # NoCoords)
    /\ (pc = "done" /\ api_key # None
          /\ (start_coords = NoCoords \/ end_coords = NoCoords)) =>
          /\ places = <<>> /\ result = NoPlacesResult
          /\ calls = <<"pelias_search", "pelias_search">>
    /\ (pc = "done" /\ Called("directions") /\ route_data.kind \in {"None", "empty"}) =>
          /\ places = <<>> /\ result = NoPlacesResult
          /\ calls = <<"pelias_search", "pelias_search", "directions">>

C12_Witness ==
    /\ pc = "done"
    /\ start_coords # NoCoords /\ end_coords = NoCoords
    /\ calls = <<"pelias_search", "pelias_search">>
    /\ result = NoPlacesResult

\* the failures of a query before any place is resolved
PreSamplingCauses == {"geocode", "route", "short route"}

\* C13 as stated: the error messages for a geocoding failure, a routing
\* failure and a route shorter than one interval are pairwise
\* distinguishable: two calls of the process that failed for different ones
\* of these reasons carry different messages.
C13_MessagesNameTheStep ==
    (pc = "done" /\ Cause \in PreSamplingCauses /\ prev.cause \in PreSamplingCauses
       /\ Cause # prev.cause)
    => result.error_message # prev.message

\* C13 amended: a geocoding failure, a routing failure and a route shorter
\* than one interval all return status "error" with one and the same
\* message, "No places found along the route from <start> to <end>. This
\* could be due to geocoding issues or route calculation problems."; the
\* message does not tell which step failed.
C13_OneMessageForAll ==
    /\ (pc = "done" /\ Cause \in PreSamplingCauses) =>
          /\ result.status = "error"
          /\ result.error_message =
                "No places found along the route from Helsinki to Turku. This could be due to geocoding issues or route calculation problems."
    /\ (pc = "done" /\ Cause \in PreSamplingCauses /\ prev.cause \in PreSamplingCauses)
          => result.error_message = prev.message

C13_Witness ==
    /\ pc = "done"
    /\ prev.cause = "geocode" /\ Cause = "short route"
    /\ result.status = "error" /\ result.error_message = prev.message

\* C14: for every outcome of the collaborators, an exception inside the
\* service included, and interval > 0, get_route_places returns (the call is
\* never stuck and never ends otherwise than with a result) a dictionary
\* whose status is "success" or "error"; it is "success" exactly when the
\* service returned a non-empty list, which is then carried unchanged in
\* 'places'; every "error" result has an 'error_message' and no 'places'.
C14_UniformEnvelope ==
    interval_km > 0 =>
        /\ pc # "done" => (ENABLED Next /\ result = NoResult)
        /\ pc = "done" =>
              /\ result.status \in {"success", "error"}
              /\ result.status = "success" <=> places # <<>>
              /\ result.status = "success" =>
                    ("places" \in DOMAIN result /\ result.places = places)
              /\ result.status = "error" =>
                    /\ "error_message" \in DOMAIN result
                    /\ result.error_message # ""
                    /\ "places" \notin DOMAIN result

C14_Witness ==
    /\ pc = "done" /\ interval_km > 0
    /\ route_data.kind = "malformed"
    /\ result.status = "error"
    /\ result.error_message = "An error occurred while calculating the route: 'routes'"

\* C15: when the route service was not configured at startup (no API key,
\* or the client could not be constructed), every call of get_route_places
\* in the process, the first and each later one, returns status "error"
\* with the not-configured message and makes no geocode, route-fetch or
\* reverse-geocode call; the configuration never changes after construction.
C15_UnconfiguredForLife ==
    /\ []((api_key = None \/ client = None) =>
            /\ pc \in {"tool_call", "done"}
            /\ calls = <<>>
            /\ prev.cause \in {"no call", "not configured"}
            /\ pc = "done" =>
                  /\ result.status = "error"
                  /\ result.error_message =
                        "Route service is not configured (API key may be missing or invalid)."
                  /\ DOMAIN result = {"status", "error_message"})
    /\ [][api_key' = api_key /\ client' = client]_vars

C15_Witness ==
    /\ api_key = None /\ client = None
    /\ prev.cause = "not configured"
    /\ pc = "done" /\ result = NotConfiguredResult

\* C18: after construction, on every path, api_key is None exactly when
\* client is None; so whenever the agent's guard on api_key lets a call
\* through, the guards on client in get_coordinates, _get_route and
\* _reverse_geocode let it through too, and a call the agent's guard stops
\* reaches no collaborator.
C18_KeyIffClient ==
    /\ api_key = None <=> client = None
    /\ api_key # None => (api_key = "5b3ce6" /\ client = "client")
    /\ pc \notin {"tool_call", "done"} => client # None
    /\ pc = "done" =>
          ((Called("pelias_search") <=> client # None)
             /\ (result = NotConfiguredResult <=> client = None))

C18_Witness ==
    /\ pc = "done" /\ api_key # None /\ client # None
    /\ Called("pelias_search") /\ Called("directions") /\ Called("pelias_reverse")
    /\ result.status = "success"

--------------------------------------------------------------------------
(* A further claim about _find_interval_points, checked under SamplerSpec  *)

NonDecreasing(ds) == \A i \in 2..Len(ds) : ds[i] >= ds[i-1]

\* C17: on a non-decreasing distance sequence with a positive interval the
\* indices selected for the successive targets never decrease (the same index
\* may be selected again), so the samples are emitted in route order and
\* their distances never decrease.
C17_IndicesNonDecreasing ==
    /\ []((ValidInput /\ NonDecreasing(distances) /\ interval_meters > 0) =>
            \A k \in 1..(Len(interval_points) - 1) :
                interval_points[k][3] <= interval_points[k+1][3])
    /\ [][(ValidInput /\ NonDecreasing(distances) /\ interval_meters > 0
             /\ closest_index # 0)
          => closest_index' >= closest_index]_vars

C17_Witness ==
    /\ pc = "fip_done" /\ ValidInput /\ NonDecreasing(distances) /\ interval_meters > 0
    /\ Len(distances) = 3 /\ Len(interval_points) = 3
    /\ interval_points[1] = PointAt(2)
    /\ interval_points[2] = PointAt(2)
    /\ interval_points[3] = PointAt(3)
    /\ distances[2] < distances[3]

--------------------------------------------------------------------------
(* WeatherService._parse_forecast_data                                     *)
(*                                                                         *)
(* Temperatures of the response are whole hundredths of a degree (the API  *)
(* sends two decimals); the temperatures of a summary are whole tenths,    *)
(* what round(x, 1) leaves.  A timestamp is an integer of seconds; 0 is a  *)
(* period whose "dt" is missing ("if not dt_timestamp" treats both alike). *)
(* A description "" is a period without a description.  The local time     *)
(* zone of datetime.fromtimestamp is UTC.                                  *)

MaxPeriods == 3      \* longest forecast list

NoTemp == -100000    \* main.get("temp") when the period has no temperature

City == "Helsinki"

Timestamps == {0, 1749978000, 1749988800, 1750075200}

Temps == {NoTemp, -126, 318}

Descriptions == {"", "clear sky"}

Periods == [dt : Timestamps, temp : Temps, description : Descriptions]

\* datetime.fromtimestamp(dt).date(), as days since 1970-01-01
DateOf(dt) == dt \div 86400

Pad(n, width) ==
    LET str == ToString(n)
    IN  IF Len(str) + 1 = width THEN "0" \o str ELSE str

\* forecast_date.strftime('%Y-%m-%d')
DateStr(day) ==
    LET z == day + 719468
        era == z \div 146097
        doe == z - era * 146097
        yoe == (doe - doe \div 1460 + doe \div 36524 - doe \div 146096) \div 365
        doy == doe - (365 * yoe + yoe \div 4 - yoe \div 100)
        mp == (5 * doy + 2) \div 153
        d == doy - (153 * mp + 2) \div 5 + 1
        m == IF mp < 10 THEN mp + 3 ELSE mp - 9
        y == yoe + era * 400 + (IF m <= 2 THEN 1 ELSE 0)
    IN  ToString(y) \o "-" \o Pad(m, 2) \o "-" \o Pad(d, 2)

\* round(x, 1): hundredths in, tenths out (no forecast temperature of the
\* model lies halfway between two tenths)
Round1(x) == IF x < 0 THEN -((5 - x) \div 10) ELSE (x + 5) \div 10

\* period.get("weather", [{}])[0].get("description", "N/A")
DescriptionOf(period) ==
    IF period.description = "" THEN "N/A" ELSE period.description

\* the two "continue" tests of the loop over the periods
Skipped(period) == period.dt = 0 \/ period.temp = NoTemp

\* descriptions[description] = descriptions.get(description, 0) + 1
\* (a dict keeps its keys in the order of their insertion)
CountDescription(descriptions, description) ==
    IF \E i \in 1..Len(descriptions) : descriptions[i].description = description
    THEN [i \in 1..Len(descriptions) |->
             IF descriptions[i].description = description
             THEN [descriptions[i] EXCEPT !.count = @ + 1]
             ELSE descriptions[i]]
    ELSE Append(descriptions, [description |-> description, count |-> 1])

\* one turn of the loop for a period that is not skipped
AddPeriod(daily_forecasts, period) ==
    LET forecast_date == DateOf(period.dt)
        fresh == [date |-> forecast_date, temps |-> <<>>, descriptions |-> <<>>,
                  date_str |-> DateStr(forecast_date)]
        known == \E i \in 1..Len(daily_forecasts) :
                     daily_forecasts[i].date = forecast_date
        dict == IF known THEN daily_forecasts ELSE Append(daily_forecasts, fresh)
    IN  [i \in 1..Len(dict) |->
            IF dict[i].date = forecast_date
            THEN [dict[i] EXCEPT
                     !.temps = Append(@, period.temp),
                     !.descriptions = CountDescription(@, DescriptionOf(period))]
            ELSE dict[i]]

RECURSIVE DailyForecasts(_, _, _)
\* the loop "for period in forecast_list"
DailyForecasts(forecast_list, i, daily_forecasts) ==
    IF i > Len(forecast_list) THEN daily_forecasts
    ELSE DailyForecasts(forecast_list, i + 1,
                        IF Skipped(forecast_list[i]) THEN daily_forecasts
                        ELSE AddPeriod(daily_forecasts, forecast_list[i]))

RECURSIVE MaxOf(_)
MaxOf(temps) ==
    IF Len(temps) = 1 THEN temps[1]
    ELSE LET rest == MaxOf(Tail(temps))
         IN  IF rest > temps[1] THEN rest ELSE temps[1]

RECURSIVE MinOf_TakesMax(_)
MinOf_TakesMax(temps) ==
    IF Len(temps) = 1 THEN temps[1]
    ELSE LET rest == MinOf_TakesMax(Tail(temps))
         IN  IF rest > temps[1] THEN rest ELSE temps[1]

RECURSIVE MinOf(_)
MinOf(temps) ==
    IF Len(temps) = 1 THEN temps[1]
    ELSE LET rest == MinOf(Tail(temps))
         IN  IF rest < temps[1] THEN rest ELSE temps[1]

RECURSIVE MostCommonFrom(_, _, _)
\* max(descriptions, key=descriptions.get): the first key with the largest count
MostCommonFrom(descriptions, i, best) ==
    IF i > Len(descriptions) THEN descriptions[best].description
    ELSE MostCommonFrom(descriptions, i + 1,
                        IF descriptions[i].count > descriptions[best].count
                        THEN i ELSE best)

MostCommon_LastAdded(descriptions) ==
    IF descriptions = <<>> THEN "N/A"
    ELSE descriptions[Len(descriptions)].description

MostCommon(descriptions) ==
    IF descriptions = <<>> THEN "N/A" ELSE MostCommonFrom(descriptions, 2, 1)

RECURSIVE SortedByDate(_)
\* sorted(daily_forecasts.items()): the dates are the keys, so all differ
SortedByDate(daily_forecasts) ==
    IF daily_forecasts = <<>> THEN <<>>
    ELSE LET first == CHOOSE i \in 1..Len(daily_forecasts) :
                          \A j \in 1..Len(daily_forecasts) :
                              daily_forecasts[i].date <= daily_forecasts[j].date
             rest == [j \in 1..(Len(daily_forecasts) - 1) |->
                         IF j < first THEN daily_forecasts[j]
                         ELSE daily_forecasts[j + 1]]
         IN  <<daily_forecasts[first]>> \o SortedByDate(rest)

DailySummary(daily_data) ==
    [date |-> daily_data.date_str,
     min_temp_celsius |-> Round1(MinOf(daily_data.temps)),
     max_temp_celsius |-> Round1(MaxOf(daily_data.temps)),
     description |-> MostCommon(daily_data.descriptions)]

ForecastError(error_message) ==
    [status |-> "error", error_message |-> error_message,
     city |-> "", daily_summaries |-> <<>>, forecast_source_periods |-> 0]

ParseForecastData(response, city) ==
    IF response.cod # "200"
    THEN ForecastError(IF response.message = ""
                       THEN "Weather forecast for '" \o city \o "' is not available."
                       ELSE response.message)
    ELSE IF response.list = <<>>
    THEN ForecastError("No forecast data found for " \o city \o ".")
    ELSE LET sorted == SortedByDate(DailyForecasts(response.list, 1, <<>>))
             processed_daily_summaries ==
                 [k \in 1..Len(sorted) |-> DailySummary(sorted[k])]
         IN  IF processed_daily_summaries = <<>>
             THEN ForecastError("Could not process daily forecast data for "
                                \o city \o ".")
             ELSE [status |-> "success", error_message |-> "",
                   city |-> city,
                   daily_summaries |-> processed_daily_summaries,
                   forecast_source_periods |-> Len(response.list)]

\* one call of _parse_forecast_data
ParseForecast ==
    /\ pc = "parse_call"
    /\ forecast' = ParseForecastData(data, City)
    /\ pc' = "parse_done"
    /\ UNCHANGED data
    /\ UNCHANGED samplerVars
    /\ UNCHANGED <<api_key, client, interval_km, start_coords, end_coords,
                   route_data, rg_next, rg_response, place_name, places, result,
                   prev, calls>>

\* a response of the forecast API: a refusal, or cod "200" with a list
ForecastInit ==
    /\ pc = "parse_call"
    /\ \/ data \in [cod : {"404"}, message : {"", "city not found"},
                    list : SeqsUpTo(Periods, 1)]
       \/ \E n \in 0..MaxPeriods :
             \E dts \in [1..n -> Timestamps], temps \in [1..n -> Temps],
                descriptions \in [1..n -> Descriptions] :
                 data = [cod |-> "200", message |-> "",
                         list |-> [i \in 1..n |->
                                      [dt |-> dts[i], temp |-> temps[i],
                                       description |-> descriptions[i]]]]
    /\ forecast = NoResult
    /\ coords = <<>>
    /\ distances = <<>>
    /\ interval_meters = 0
    /\ current_target = 0
    /\ total_distance = 0
    /\ closest_index = 0
    /\ interval_points = <<>>
    /\ api_key = "key"
    /\ client = "client"
    /\ interval_km = 0
    /\ start_coords = NoCoords
    /\ end_coords = NoCoords
    /\ route_data = NoRoute
    /\ rg_next = 1
    /\ rg_response = NoResponse
    /\ place_name = None
    /\ places = <<>>
    /\ result = NoResult
    /\ prev = NoPrev
    /\ calls = <<>>

ForecastNext == ParseForecast

ForecastSpec == ForecastInit /\ [][ForecastNext]_vars

--------------------------------------------------------------------------
(* The claim about _parse_forecast_data, checked under ForecastSpec        *)

Parsed == pc = "parse_done" /\ data.cod = "200"

\* the periods that have both a timestamp and a temperature
Qualifying == {i \in 1..Len(data.list) :
                  data.list[i].dt # 0 /\ data.list[i].temp # NoTemp}

QualifyingOn(day) == {i \in Qualifying : data.list[i].dt \div 86400 = day}

Dates == {data.list[i].dt \div 86400 : i \in Qualifying}

TempsOn(day) == {data.list[i].temp : i \in QualifyingOn(day)}

Lowest(S) == CHOOSE x \in S : \A y \in S : x <= y

Highest(S) == CHOOSE x \in S : \A y \in S : x >= y

Occurrences(day, description) ==
    Cardinality({i \in QualifyingOn(day) :
                    description = (IF data.list[i].description = ""
                                   THEN "N/A" ELSE data.list[i].description)})

\* the number of dates before the given one, plus one: its place in date order
PlaceOf(day) == Cardinality({d \in Dates : d < day}) + 1

\* t tenths is x hundredths rounded to one decimal place
IsRounded(t, x) == 10 * t - 5 < x /\ x < 10 * t + 5

\* what the summaries are, whatever the temperatures in them
C16_Buckets ==
    Parsed =>
        IF Qualifying = {}
        THEN forecast.status = "error"
        ELSE /\ forecast.status = "success"
             /\ Len(forecast.daily_summaries) = Cardinality(Dates)
             /\ \A day \in Dates :
                   LET summary == forecast.daily_summaries[PlaceOf(day)]
                   IN  /\ summary.date = DateStr(day)
                       /\ summary.min_temp_celsius <= summary.max_temp_celsius
                       /\ \A other \in {"N/A", "clear sky"} :
                              Occurrences(day, summary.description)
                                  >= Occurrences(day, other)
                       /\ Occurrences(day, summary.description) > 0

\* C16 as stated: for a response with cod "200" there is one summary per
\* distinct date of the periods that have a timestamp and a temperature, in
\* ascending date order, whose min_temp_celsius and max_temp_celsius ARE the
\* minimum and maximum temperature of the date's periods and whose
\* description is a most frequent one; no qualifying period gives an error.
C16_ExactExtremes ==
    /\ C16_Buckets
    /\ Parsed /\ Qualifying # {} /\ forecast.status = "success"
           /\ Len(forecast.daily_summaries) = Cardinality(Dates) =>
          \A day \in Dates :
              LET summary == forecast.daily_summaries[PlaceOf(day)]
              IN  /\ 10 * summary.min_temp_celsius = Lowest(TempsOn(day))
                  /\ 10 * summary.max_temp_celsius = Highest(TempsOn(day))

\* C16, amended: as stated, except that min_temp_celsius and
\* max_temp_celsius are the minimum and maximum temperature of the date's
\* periods rounded to one decimal place.
C16_RoundedExtremes ==
    /\ C16_Buckets
    /\ Parsed /\ Qualifying # {} /\ forecast.status = "success"
           /\ Len(forecast.daily_summaries) = Cardinality(Dates) =>
          \A day \in Dates :
              LET summary == forecast.daily_summaries[PlaceOf(day)]
              IN  /\ IsRounded(summary.min_temp_celsius, Lowest(TempsOn(day)))
                  /\ IsRounded(summary.max_temp_celsius, Highest(TempsOn(day)))

\* C16 happens: three periods listed latest date first, two of them on one
\* date at different hours with different temperatures, no skipped period;
\* the parse returned two summaries, the earlier date first.
C16_Witness ==
    /\ Parsed
    /\ Len(data.list) = 3
    /\ Cardinality(Qualifying) = 3
    /\ data.list[1].dt \div 86400 > data.list[2].dt \div 86400
    /\ data.list[2].dt # data.list[3].dt
    /\ data.list[2].dt \div 86400 = data.list[3].dt \div 86400
    /\ data.list[2].temp > data.list[3].temp
    /\ forecast.status = "success"
    /\ Len(forecast.daily_summaries) = 2
    /\ forecast.daily_summaries[1].date = "2025-06-15"
    /\ forecast.daily_summaries[1].min_temp_celsius = -13
    /\ forecast.daily_summaries[1].max_temp_celsius = 32
    /\ forecast.daily_summaries[2].date = "2025-06-16"

====
